---- MODULE Spec2Model ----
(***************************************************************************)
(* Model of the UDP reachability probe of ping.go: main builds a run       *)
(* (Parameters, Results), Run validates the parameters and, for protocol   *)
(* "udp", makes Count sequential pingUdp attempts, classifying each into   *)
(* its slot of Results.                                                    *)
(*                                                                         *)
(* The run's parameters range over small sets of values of their Go types; *)
(* the resolver, the dial and the read are the environment and are chosen  *)
(* nondeterministically among the results the net package can return.      *)
(***************************************************************************)
EXTENDS Integers, Sequences, FiniteSets, TLC

\* ---------------------------------------------------------------- bounds
MaxCount == 2        \* largest Count given on input
MaxIps == 2          \* longest address list the resolver returns
MaxElapsed == 1      \* largest elapsed time (whole seconds) of one attempt

\* ------------------------------------------------------------- constants
E_Timeout == "timeout"
E_ConnRefused == "connection refused (no response)"
MaxPort == 65535
DefaultTimeout == 5
DefaultCount == 3

\* error texts of fmt.Errorf / the net package, without their arguments
ErrPort == "ping requires a valid destination port between 0 and 65535"
ErrNoIP == "FQDN does not resolve to any known ip"
ErrBadIP == "destination IP is invalid"
ErrUnsupported == "protocol is not supported"
ErrDial == "dial udp: error"
ErrRead == "read Error: read udp: error"

\* ------------------------------------------------------------ input sets
IPv4Literals == {"127.0.0.1", "10.0.0.1"}
IPv6Literals == {"::1"}
ZonedLiterals == {"fe80::1%eth0"}    \* an address with a zone: not an IP for ParseIP
HostNames == {"example.com"}
Destinations == {"127.0.0.1", "::1", "fe80::1%eth0", "example.com"}
ResolvedAddrs == {"10.0.0.1", "fe80::1%eth0"}
Ports == {-1, 0, 9, MaxPort, MaxPort + 1}
Protocols == {"udp", "tcp", "icmp"}
Counts == -1 .. MaxCount
Timeouts == {-1, 0, 1}

ZeroResult ==
  [Success |-> FALSE, Error |-> "", Destination |-> "", DestinationPort |-> 0,
   Protocol |-> "", RTT |-> 0]

NoConn == [host |-> "", port |-> 0]

NoLookup == [called |-> FALSE, failed |-> FALSE, ips |-> <<>>]

VARIABLES
  pc,          \* position of the program
  input,       \* the parameters as main received them
  Parameters,  \* r.Parameters
  Results,     \* r.Results
  lookup,      \* what net.LookupHost returned to ValidateParameters
  i,           \* loop index of Run
  conn,        \* address the current attempt dialed
  open,        \* number of sockets currently open
  opened,      \* number of sockets opened so far
  deadline,    \* timeout of the read deadline last armed (0: none armed)
  err,         \* value returned by the last pingUdp call ("" is nil)
  runErr,      \* value returned by Run ("" is nil)
  trace        \* outcome of each pingUdp call so far, in order

vars == <<pc, input, Parameters, Results, lookup, i, conn, open, opened,
          deadline, err, runErr, trace>>

\* ------------------------------------------------------- ValidateParameters
\* net.ParseIP: non-nil exactly for IPv4 and IPv6 literals without a zone
ParseIP(s) == s \in IPv4Literals \cup IPv6Literals

\* sequences over S of length 0..n
RECURSIVE SeqsUpTo(_, _)
SeqsUpTo(S, n) ==
  IF n = 0 THEN {<<>>}
  ELSE LET shorter == SeqsUpTo(S, n - 1)
       IN shorter \cup {Append(s, x) : s \in {t \in shorter : Len(t) = n - 1}, x \in S}

\* net.LookupHost: an address literal (zoned or not) is returned as it is;
\* any other name fails or resolves to a list of addresses
LookupHost(host) ==
  IF host \in IPv4Literals \cup IPv6Literals \cup ZonedLiterals
  THEN {[called |-> TRUE, failed |-> FALSE, ips |-> <<host>>]}
  ELSE {[called |-> TRUE, failed |-> TRUE, ips |-> <<>>]}
       \cup {[called |-> TRUE, failed |-> FALSE, ips |-> s] :
               s \in SeqsUpTo(ResolvedAddrs, MaxIps)}

PortInvalid_ZeroRejected(p) ==
  p.Protocol # "icmp" /\ (p.DestinationPort <= 0 \/ p.DestinationPort > MaxPort)

PortInvalid(p) ==
  p.Protocol # "icmp" /\ (p.DestinationPort < 0 \/ p.DestinationPort > MaxPort)

Candidate_LastAddress(dest, lk) == IF lk.failed THEN dest ELSE lk.ips[Len(lk.ips)]

\* the string handed to ParseIP (lk.ips is not empty when the lookup succeeded)
Candidate(dest, lk) == IF lk.failed THEN dest ELSE lk.ips[1]

ValidateError(p, lk) ==
  IF PortInvalid(p) THEN ErrPort
  ELSE IF ~lk.failed /\ Len(lk.ips) = 0 THEN ErrNoIP
  ELSE IF ~ParseIP(Candidate(p.Destination, lk)) THEN ErrBadIP
  ELSE ""

Normalized(p, lk) ==
  [p EXCEPT !.ipDest = Candidate(p.Destination, lk),
            !.Timeout = IF p.Timeout = 0 THEN DefaultTimeout ELSE p.Timeout,
            !.Count = IF p.Count = 0 THEN DefaultCount ELSE p.Count]

\* ------------------------------------------------------------------ pingUdp
\* destination := Destination + ":" + port
DialAddress(p) == [host |-> p.Destination, port |-> p.DestinationPort]

\* net.Dial splits host:port at the last colon and rejects an unbracketed
\* IPv6 literal ("too many colons in address")
DialCanSucceed(p) == p.Destination \notin IPv6Literals

\* a deadline in the past makes the read time out at once
ReadOutcomes(timeout) ==
  IF timeout < 0 THEN {"timeout"} ELSE {"response", "timeout", "refused", "other"}

ReadError(outcome) ==
  CASE outcome = "response" -> ""
    [] outcome = "timeout" -> E_Timeout
    [] outcome = "refused" -> E_ConnRefused
    [] OTHER -> ErrRead

ClosedOnReturn_OnlyOnResponse(outcome) == outcome = "response"

\* defer c.Close(): runs on every return of pingUdp after the dial
ClosedOnReturn(outcome) == TRUE

\* ---------------------------------------------------------------------- Run
RunAborts_Never(e) == FALSE

RunAborts(e) == e # ""

ClassifySuccess_Optimistic(e) == e \in {E_Timeout, E_ConnRefused}

\* Success written for a non-nil pingUdp error e
ClassifySuccess(e) == e = E_ConnRefused

\* Error written for a non-nil pingUdp error e
ClassifyError(e) == e

InRange(k, s) == 0 <= k /\ k < Len(s)

\* ---------------------------------------------------------------------- Init
\* main: params{Destination: ip, DestinationPort: port, Timeout: *timeout,
\* Count: *count, Protocol: "udp"}.  The fields range over values of the
\* params type (the run is the unit handed over for each module run), not
\* only over the flag defaults 5 and 3 and the protocol main fills in.
Init ==
  /\ input \in [Destination : Destinations, DestinationPort : Ports,
                Protocol : Protocols, Count : Counts, Timeout : Timeouts,
                ipDest : {""}]
  /\ Parameters = input
  /\ Results = <<>>
  /\ pc = "main"
  /\ lookup = NoLookup
  /\ i = 0
  /\ conn = NoConn
  /\ open = 0
  /\ opened = 0
  /\ deadline = 0
  /\ err = ""
  /\ runErr = ""
  /\ trace = <<>>

\* main: res := make([]result, *count); r := &run{...}
MainMake ==
  /\ pc = "main"
  /\ IF Parameters.Count < 0
     THEN /\ pc' = "panic_make"
          /\ UNCHANGED Results
     ELSE /\ pc' = "Run"
          /\ Results' = [k \in 1 .. Parameters.Count |-> ZeroResult]
  /\ UNCHANGED <<input, Parameters, lookup, i, conn, open, opened, deadline,
                 err, runErr, trace>>

\* Run: err := r.ValidateParameters(); if err != nil { return err }
ValidateParameters ==
  /\ pc = "Run"
  /\ \E lk \in LookupHost(Parameters.Destination) :
       LET e == ValidateError(Parameters, lk)
       IN /\ lookup' = IF PortInvalid(Parameters) THEN lookup ELSE lk
          /\ Parameters' = IF e = "" THEN Normalized(Parameters, lk) ELSE Parameters
          /\ runErr' = e
          /\ pc' = IF RunAborts(e) THEN "returned" ELSE "dispatch"
  /\ UNCHANGED <<input, Results, i, conn, open, opened, deadline, err, trace>>

\* Run: if r.Parameters.Protocol == "udp" { for i := 0 ... } else { return error }
Dispatch ==
  /\ pc = "dispatch"
  /\ IF Parameters.Protocol = "udp"
     THEN /\ pc' = "loop"
          /\ i' = 0
          /\ UNCHANGED runErr
     ELSE /\ pc' = "returned"
          /\ runErr' = ErrUnsupported
          /\ UNCHANGED i
  /\ UNCHANGED <<input, Parameters, Results, lookup, conn, open, opened,
                 deadline, err, trace>>

\* Run: the loop condition i < Count; start := time.Now(); return nil after the loop
LoopHead ==
  /\ pc = "loop"
  /\ IF i < Parameters.Count
     THEN /\ pc' = "dial"
          /\ UNCHANGED runErr
     ELSE /\ pc' = "returned"
          /\ UNCHANGED runErr
  /\ UNCHANGED <<input, Parameters, Results, lookup, i, conn, open, opened,
                 deadline, err, trace>>

\* pingUdp: c, err := net.Dial("udp", destination); if err != nil { return err }
Dial ==
  /\ pc = "dial"
  /\ \E ok \in {b \in BOOLEAN : b => DialCanSucceed(Parameters)} :
       IF ok
       THEN /\ conn' = DialAddress(Parameters)
            /\ open' = open + 1
            /\ opened' = opened + 1
            /\ pc' = "send"
            /\ UNCHANGED <<err, trace>>
       ELSE /\ err' = ErrDial
            /\ trace' = Append(trace, "dialfail")
            /\ pc' = "classify"
            /\ UNCHANGED <<conn, open, opened>>
  /\ UNCHANGED <<input, Parameters, Results, lookup, i, deadline, runErr>>

\* pingUdp: c.Write(...); c.SetReadDeadline(now + Timeout); defer c.Close()
Send ==
  /\ pc = "send"
  /\ deadline' = Parameters.Timeout
  /\ pc' = "read"
  /\ UNCHANGED <<input, Parameters, Results, lookup, i, conn, open, opened,
                 err, runErr, trace>>

\* pingUdp: c.Read(rb), the error it is turned into, and the deferred Close
Read ==
  /\ pc = "read"
  /\ \E outcome \in ReadOutcomes(deadline) :
       /\ err' = ReadError(outcome)
       /\ trace' = Append(trace, outcome)
       /\ open' = IF ClosedOnReturn(outcome) THEN open - 1 ELSE open
  /\ pc' = "classify"
  /\ UNCHANGED <<input, Parameters, Results, lookup, i, conn, opened, deadline,
                 runErr>>

\* Run: if err != nil { r.Results[i].Error = ...; r.Results[i].Success = ... }
Classify ==
  /\ pc = "classify"
  /\ IF err = ""
     THEN /\ pc' = "record"
          /\ UNCHANGED Results
     ELSE IF InRange(i, Results)
     THEN /\ pc' = "record"
          /\ Results' = [Results EXCEPT ![i + 1].Error = ClassifyError(err),
                                        ![i + 1].Success = ClassifySuccess(err)]
     ELSE /\ pc' = "panic_index"
          /\ UNCHANGED Results
  /\ UNCHANGED <<input, Parameters, lookup, i, conn, open, opened, deadline,
                 err, runErr, trace>>

\* Run: r.Results[i].RTT = elapsed; the echoed request fields; i++
Record ==
  /\ pc = "record"
  /\ IF InRange(i, Results)
     THEN \E elapsed \in 0 .. MaxElapsed :
            /\ Results' = [Results EXCEPT ![i + 1].RTT = elapsed,
                                          ![i + 1].Destination = Parameters.Destination,
                                          ![i + 1].DestinationPort = Parameters.DestinationPort,
                                          ![i + 1].Protocol = Parameters.Protocol]
            /\ i' = i + 1
            /\ pc' = "loop"
     ELSE /\ pc' = "panic_index"
          /\ UNCHANGED <<Results, i>>
  /\ UNCHANGED <<input, Parameters, lookup, conn, open, opened, deadline, err,
                 runErr, trace>>

\* main: if err := r.Run(); err != nil { panic(err) }; println(prettyPrint(r.Results))
MainExit ==
  /\ pc = "returned"
  /\ pc' = IF runErr # "" THEN "panic_err" ELSE "done"
  /\ UNCHANGED <<input, Parameters, Results, lookup, i, conn, open, opened,
                 deadline, err, runErr, trace>>

Next ==
  \/ MainMake
  \/ ValidateParameters
  \/ Dispatch
  \/ LoopHead
  \/ Dial
  \/ Send
  \/ Read
  \/ Classify
  \/ Record
  \/ MainExit

Spec == Init /\ [][Next]_vars

\* ------------------------------------------------------------- properties
\* ValidateParameters has returned
ValidationRan == pc \notin {"main", "panic_make", "Run"}

\* ValidateParameters has returned nil
ValidationOk == ValidationRan /\ runErr \notin {ErrPort, ErrNoIP, ErrBadIP}

\* the k-th attempt (1-based) has been classified into its slot
Classified(k) == k <= i \/ (k = i + 1 /\ pc = "record")

\* C1: every completed attempt whose read returned bytes has success=true and
\* no error in its result slot.
C1_ResponseIsSuccess ==
  \A k \in 1 .. Len(trace) :
    (k <= i /\ trace[k] = "response") =>
      (Results[k].Success = TRUE /\ Results[k].Error = "")

\* C2: once validation has succeeded, the result sequence has exactly as many
\* entries as the validated count.
C2_SizedToValidatedCount ==
  ValidationOk => Len(Results) = Parameters.Count

C4_AllAttemptsRun ==
  /\ pc # "panic_index"
  /\ (ValidationOk /\ Parameters.Protocol = "udp") =>
       /\ Len(trace) \in {i, i + 1}
       /\ i <= Parameters.Count
       /\ pc \in {"returned", "done"} =>
            (runErr = "" /\ i = Parameters.Count /\ Len(trace) = Parameters.Count)

\* C5: whenever Run has an error to return, no attempt was made: no socket
\* was opened and the result sequence is as main built it.
C5_ErrorMeansNoAttempt ==
  runErr # "" =>
    /\ opened = 0
    /\ open = 0
    /\ trace = <<>>
    /\ i = 0
    /\ Results = [k \in 1 .. input.Count |-> ZeroResult]

C5_Witness ==
  /\ pc = "returned"
  /\ runErr = ErrUnsupported
  /\ Len(Results) > 0

C7_ResolvedAddress ==
  ValidationRan =>
    /\ ValidationOk =>
         /\ lookup.called
         /\ Parameters.ipDest \in IPv4Literals \cup IPv6Literals
         /\ ~lookup.failed =>
              (Len(lookup.ips) >= 1 /\ Parameters.ipDest = lookup.ips[1])
         /\ lookup.failed => Parameters.ipDest = input.Destination
    /\ (lookup.called /\ ~lookup.failed /\ lookup.ips = <<>>) =>
         (runErr = ErrNoIP /\ Parameters.ipDest = "")
    /\ (lookup.called /\ ~lookup.failed /\ lookup.ips # <<>>
        /\ lookup.ips[1] \notin IPv4Literals \cup IPv6Literals) =>
         (runErr = ErrBadIP /\ Parameters.ipDest = "")
    /\ (lookup.called /\ lookup.failed
        /\ input.Destination \notin IPv4Literals \cup IPv6Literals) =>
         (runErr = ErrBadIP /\ Parameters.ipDest = "")

C7_Witness ==
  /\ pc = "dispatch"
  /\ input.Destination = "example.com"
  /\ Len(lookup.ips) = 2
  /\ lookup.ips[1] # lookup.ips[2]
  /\ Parameters.ipDest = "10.0.0.1"

\* C8: after successful validation count and timeout are positive, and no
\* read deadline is armed with a non-positive timeout.
C8_PositiveCountAndTimeout ==
  ValidationOk =>
    /\ Parameters.Count > 0
    /\ Parameters.Timeout > 0
    /\ pc = "read" => deadline > 0

\* C9: the address an attempt dials is ipDest:destinationPort.
C9_DialsResolvedAddress ==
  open > 0 =>
    conn = [host |-> Parameters.ipDest, port |-> Parameters.DestinationPort]

\* C10: at most one socket is open at any time, and none is open outside the
\* dial-to-read section of an attempt: not when the attempt is classified or
\* recorded, not when the next attempt starts, not when Run has returned.
C10_SocketScoped ==
  /\ open \in {0, 1}
  /\ pc \notin {"send", "read"} => open = 0

C10_Witness ==
  /\ pc = "classify"
  /\ i >= 1
  /\ opened >= 2
  /\ err = E_Timeout
  /\ open = 0

====
